---- MODULE Spec2Model ----
(***************************************************************************)
(* Model of src/rhizomes/mod.rs: algorithms for polynomials given in the   *)
(* Lagrange basis over the powers of a root of unity of an NTT-friendly    *)
(* field.  Arrays are sequences; At/Set use the source's 0-based indices.  *)
(***************************************************************************)
EXTENDS Integers, Sequences, FiniteSets, TLC

VARIABLES
  pc,      \* "start", "roots" (table built), or the name of the function called
  n,       \* the size argument of nth_root_powers / extend_dimension_double
  roots,   \* the root table handed to the evaluators and extend_dimension_one
  poly,    \* the polynomial (the values of extend_dimension_one)
  polys,   \* the polynomials of a batched call
  x,       \* the evaluation point
  buf,     \* an in/out buffer as it was before the call
  out,     \* the returned value(s), or the in/out buffer after the call
  failed   \* the call panicked (assertion, slice index out of range)

vars == <<pc, n, roots, poly, polys, x, buf, out, failed>>

(***************************************************************************)
(* The field F (external to the module under study): the prime field of    *)
(* order P, with a generator of its 2-power subgroup of order 2^NumRoots.  *)
(***************************************************************************)
P == 17
Gen == 3
NumRoots == 4

Field == 0..(P - 1)

zero == 0
one == 1

Add(a, b) == (a + b) % P
Sub(a, b) == (a + P - b) % P
Neg(a) == (P - a) % P
Mul(a, b) == (a * b) % P

RECURSIVE Pow(_, _)
Pow(a, e) == IF e = 0 THEN one ELSE Mul(a, Pow(a, e - 1))

\* Multiplicative inverse; undefined (no such y) for the additive identity.
Inv(a) == CHOOSE y \in Field : Mul(a, y) = one

half == Inv(2)

RECURSIVE Pow2(_)
Pow2(k) == IF k = 0 THEN 1 ELSE 2 * Pow2(k - 1)

\* F::root(k): the primitive 2^k-th root of unity, root(k)^2 = root(k-1).
root(k) == Pow(Gen, Pow2(NumRoots - k))

\* fp::log2: the least k with 2^k >= m.
RECURSIVE log2_from(_, _)
log2_from(m, k) == IF Pow2(k) >= m THEN k ELSE log2_from(m, k + 1)
log2(m) == log2_from(m, 0)

(***************************************************************************)
(* Bounds of the inputs.                                                   *)
(***************************************************************************)
\* longest polynomial / value list handed to the one-polynomial operations
MaxLen == 8
\* longest polynomial of a batch, and of a multi-point call
MaxSmallLen == 2
\* most polynomials in one batch
MaxBatch == 2
\* most points in one multi-point call
MaxPoints == 2
\* longest buffer handed to perfect_shuffle
MaxShuffleLen == 32

\* Sample values of a polynomial.  Every operation is linear in the values,
\* so the 0/1 vectors, which contain the unit vectors, determine it.
Vals == {zero, one}

SeqsOf(S, lo, hi) == UNION {[1..k -> S] : k \in lo..hi}

TableSizes == {Pow2(k) : k \in 0..NumRoots}

\* Sizes whose double still has a root of unity in the field.
DoubleSizes == {Pow2(k) : k \in 0..(NumRoots - 1)}

(***************************************************************************)
(* 0-based array access.                                                   *)
(***************************************************************************)
At(s, i) == s[i + 1]
Set(s, i, v) == [s EXCEPT ![i + 1] = v]
Zeros(k) == [i \in 1..k |-> zero]

(***************************************************************************)
(* Numeric helpers.                                                        *)
(***************************************************************************)
RECURSIVE half_power_loop(_, _)
half_power_loop(k, acc) == IF k = 0 THEN acc ELSE half_power_loop(k - 1, Mul(acc, half))

half_power(k) == half_power_loop(k, one)

\* The assertion n = 1 << log2(n) of inv_pow2 and nth_root_powers.
pow2_assert_fails(m) == m # Pow2(log2(m))

inv_pow2(m) == half_power(log2(m))

RECURSIVE term_w_loop(_, _, _, _)
term_w_loop(m, i, rts, j) ==
  IF j > m THEN one
  ELSE LET rest == term_w_loop(m, i, rts, j + 1)
       IN IF i # j THEN Mul(Sub(At(rts, i), At(rts, j)), rest) ELSE rest

term_w(m, i, rts) == Inv(term_w_loop(m, i, rts, 0))

(***************************************************************************)
(* nth_root_powers: the table is built in place, size by size.             *)
(***************************************************************************)
\* for j in (1..mid).rev() { roots[j << 1] = roots[j] }, entered at j = mid-1
RECURSIVE copy_even_ascending(_, _, _)
copy_even_ascending(rts, j, mid) ==
  IF j >= mid THEN rts
  ELSE copy_even_ascending(Set(rts, 2 * j, At(rts, j)), j + 1, mid)

RECURSIVE copy_even_loop(_, _)
copy_even_loop(rts, j) ==
  IF j < 1 THEN rts
  ELSE copy_even_loop(Set(rts, 2 * j, At(rts, j)), j - 1)

\* Mutant: the copy runs upwards, overwriting roots before they are moved.
copy_even_mut(rts, mid) == copy_even_ascending(rts, 1, mid)

copy_even(rts, mid) == copy_even_loop(rts, mid - 1)

\* for j in (3..mid).step_by(2) { roots[j] = wn*roots[j-1]; roots[j+mid] = -roots[j] }
RECURSIVE fill_odd(_, _, _, _)
fill_odd(rts, j, mid, wn) ==
  IF j >= mid THEN rts
  ELSE LET rj == Mul(wn, At(rts, j - 1))
       IN fill_odd(Set(Set(rts, j, rj), j + mid, Neg(rj)), j + 2, mid, wn)

\* One iteration of for i in 2..=log2_n.
doubling_step(rts, i) ==
  LET mid == Pow2(i - 1)
      wn == root(i)
      copied == copy_even(rts, mid)
      placed == Set(Set(copied, 1, wn), 1 + mid, Neg(wn))
  IN fill_odd(placed, 3, mid, wn)

RECURSIVE doubling_loop(_, _, _)
doubling_loop(rts, i, log2_n) ==
  IF i > log2_n THEN rts
  ELSE doubling_loop(doubling_step(rts, i), i + 1, log2_n)

\* Mutant: roots[1] initialised to one instead of -one.
nth_root_powers_plus(m) ==
  LET log2_n == log2(m)
      r0 == Set(Zeros(m), 0, one)
  IN IF m > 1 THEN doubling_loop(Set(r0, 1, one), 2, log2_n) ELSE r0

nth_root_powers(m) ==
  LET log2_n == log2(m)
      r0 == Set(Zeros(m), 0, one)
  IN IF m > 1 THEN doubling_loop(Set(r0, 1, Neg(one)), 2, log2_n) ELSE r0

\* The test oracle: successive multiplication by root(log2(n)).
nth_root_powers_slow(m) ==
  LET wn == root(log2(m))
  IN [i \in 1..m |-> Pow(wn, i - 1)]

(***************************************************************************)
(* Single-point evaluator (Algorithm 6).                                   *)
(***************************************************************************)
\* for (yi, wn_i) in poly[1..n].zip(roots[1..n])
RECURSIVE eval_head(_, _, _, _, _, _, _)
eval_head(p, rts, pt, i, l, u, d) ==
  IF i >= Len(p) THEN u
  ELSE LET l2 == Mul(l, d)
           d2 == Sub(At(rts, i), pt)
           u2 == Add(Mul(u, d2), Mul(Mul(l2, At(rts, i)), At(p, i)))
       IN eval_head(p, rts, pt, i + 1, l2, u2, d2)

\* for wn_i in roots[n..] { u *= wn_i - x }
RECURSIVE eval_tail(_, _, _, _)
eval_tail(rts, pt, i, u) ==
  IF i >= Len(rts) THEN u
  ELSE eval_tail(rts, pt, i + 1, Mul(u, Sub(At(rts, i), pt)))

\* poly[0], roots[0], roots[1..n] are out of range
poly_eval_rhizomes_panics(p, rts) ==
  \/ Len(p) = 0
  \/ Len(rts) = 0
  \/ Len(p) > Len(rts)
  \/ (Len(rts) > 1 /\ pow2_assert_fails(Len(rts)))

\* Mutant: the loop over roots[n..] is left out.
poly_eval_rhizomes_nopad(p, rts, pt) ==
  LET u1 == eval_head(p, rts, pt, 1, one, At(p, 0), Sub(At(rts, 0), pt))
  IN IF Len(rts) > 1 THEN Mul(u1, Neg(inv_pow2(Len(rts)))) ELSE u1

\* Mutant: the factor -1/roots.len() is applied to a table of length 1 too.
poly_eval_rhizomes_always_scaled(p, rts, pt) ==
  LET u1 == eval_head(p, rts, pt, 1, one, At(p, 0), Sub(At(rts, 0), pt))
      u2 == eval_tail(rts, pt, Len(p), u1)
  IN Mul(u2, Neg(inv_pow2(Len(rts))))

poly_eval_rhizomes(p, rts, pt) ==
  LET u1 == eval_head(p, rts, pt, 1, one, At(p, 0), Sub(At(rts, 0), pt))
      u2 == eval_tail(rts, pt, Len(p), u1)
  IN IF Len(rts) > 1 THEN Mul(u2, Neg(inv_pow2(Len(rts)))) ELSE u2

(***************************************************************************)
(* Batched evaluator (Algorithm 7).                                        *)
(***************************************************************************)
\* Mutant: an exhausted polynomial's accumulator is no longer multiplied by d.
batched_inner_skip(u, ps, i, d, t) ==
  [j \in 1..Len(u) |->
     IF i < Len(ps[j]) THEN Add(Mul(u[j], d), Mul(t, At(ps[j], i))) ELSE u[j]]

\* for (u_j, poly) in u.iter_mut().zip(polynomials), at index i
batched_inner(u, ps, i, d, t) ==
  [j \in 1..Len(u) |->
     LET uj == Mul(u[j], d)
     IN IF i < Len(ps[j]) THEN Add(uj, Mul(t, At(ps[j], i))) ELSE uj]

\* for (i, wn_i) in (1..).zip(&roots[1..])
RECURSIVE batched_outer(_, _, _, _, _, _, _)
batched_outer(u, ps, rts, pt, i, l, d) ==
  IF i >= Len(rts) THEN u
  ELSE LET l2 == Mul(l, d)
           d2 == Sub(At(rts, i), pt)
           t == Mul(l2, At(rts, i))
       IN batched_outer(batched_inner(u, ps, i, d2, t), ps, rts, pt, i + 1, l2, d2)

\* poly[0] of an empty polynomial, roots[0] and roots[1..] of an empty table
poly_eval_rhizomes_batched_panics(ps, rts) ==
  \/ \E j \in 1..Len(ps) : Len(ps[j]) = 0
  \/ Len(rts) = 0
  \/ (Len(rts) > 1 /\ pow2_assert_fails(Len(rts)))

poly_eval_rhizomes_batched(ps, rts, pt) ==
  LET u0 == [j \in 1..Len(ps) |-> At(ps[j], 0)]
      u1 == batched_outer(u0, ps, rts, pt, 1, one, Sub(At(rts, 0), pt))
  IN IF Len(rts) > 1
     THEN [j \in 1..Len(u1) |-> Mul(u1[j], Neg(inv_pow2(Len(rts))))]
     ELSE u1

(***************************************************************************)
(* Multi-point evaluator.                                                  *)
(***************************************************************************)
\* z = poly[..n].zip(roots[..n]).map(yi * wn_i)
multieval_z(p, rts) == [i \in 1..Len(p) |-> Mul(p[i], rts[i])]

\* Mutant: the root is multiplied in again, as if z held poly[i] alone.
RECURSIVE multieval_head_twice(_, _, _, _, _, _, _)
multieval_head_twice(z, rts, pt, i, l, u, d) ==
  IF i >= Len(z) THEN u
  ELSE LET l2 == Mul(l, d)
           d2 == Sub(At(rts, i), pt)
           u2 == Add(Mul(u, d2), Mul(Mul(l2, At(rts, i)), At(z, i)))
       IN multieval_head_twice(z, rts, pt, i + 1, l2, u2, d2)

\* for (zi, wn_i) in z[1..n].zip(roots[1..n])
RECURSIVE multieval_head(_, _, _, _, _, _, _)
multieval_head(z, rts, pt, i, l, u, d) ==
  IF i >= Len(z) THEN u
  ELSE LET l2 == Mul(l, d)
           d2 == Sub(At(rts, i), pt)
           u2 == Add(Mul(u, d2), Mul(l2, At(z, i)))
       IN multieval_head(z, rts, pt, i + 1, l2, u2, d2)

\* The body of for x_j in output_x.iter_mut(): the value written to the slot.
multieval_point(p, z, rts, pt) ==
  LET u1 == multieval_head(z, rts, pt, 1, one, At(p, 0), Sub(At(rts, 0), pt))
      u2 == eval_tail(rts, pt, Len(p), u1)
  IN IF Len(rts) > 1 THEN Mul(u2, Neg(inv_pow2(Len(rts)))) ELSE u2

\* roots[..n] out of range, the assertion of inv_pow2, poly[0], roots[0]
poly_multieval_rhizomes_batched_panics(pts, p, rts) ==
  \/ Len(p) > Len(rts)
  \/ pow2_assert_fails(Len(rts))
  \/ (Len(pts) > 0 /\ (Len(p) = 0 \/ Len(rts) = 0))

poly_multieval_rhizomes_batched(pts, p, rts) ==
  LET z == multieval_z(p, rts)
  IN [j \in 1..Len(pts) |-> multieval_point(p, z, rts, pts[j])]

(***************************************************************************)
(* Dimension extender.                                                     *)
(***************************************************************************)
\* values.zip(roots.cycle().skip(1 + (n >> 1)))
RECURSIVE extend_special(_, _, _)
extend_special(values, rts, i) ==
  IF i >= Len(values) THEN zero
  ELSE Add(Mul(At(values, i), At(rts, (i + 1 + (Len(rts) \div 2)) % Len(rts))),
           extend_special(values, rts, i + 1))

\* for (i, yi) in values.iter().enumerate() { y += yi * term_w(k, i, roots) }
RECURSIVE extend_general_sum(_, _, _)
extend_general_sum(values, rts, i) ==
  IF i >= Len(values) THEN zero
  ELSE Add(Mul(At(values, i), term_w(Len(values), i, rts)),
           extend_general_sum(values, rts, i + 1))

\* Mutant: the negation of the rescaling factor is dropped.
extend_general_unsigned(values, rts) ==
  Mul(extend_general_sum(values, rts, 0), Inv(term_w(Len(values), Len(values), rts)))

extend_general(values, rts) ==
  Mul(extend_general_sum(values, rts, 0), Neg(Inv(term_w(Len(values), Len(values), rts))))

\* assert!(k < n)
extend_dimension_one_panics(values, rts) == ~(Len(values) < Len(rts))

extend_dimension_one(values, rts) ==
  IF Len(values) = Len(rts) - 1
  THEN extend_special(values, rts, 0)
  ELSE extend_general(values, rts)

\* swap_with_slice panics on slices of different lengths
RECURSIVE perfect_shuffle_panics(_)
perfect_shuffle_panics(len) ==
  /\ len >= 4
  /\ LET h == len \div 2
         q == len \div 4
     IN \/ h - q # q
        \/ perfect_shuffle_panics(h)
        \/ perfect_shuffle_panics(len - h)

\* Mutant: the quarter blocks are swapped but the halves are not shuffled.
perfect_shuffle_norecurse(input) ==
  LET len == Len(input)
      h == len \div 2
      q == len \div 4
  IN IF len >= 4
     THEN SubSeq(input, 1, q) \o SubSeq(input, h + 1, h + q)
          \o SubSeq(input, q + 1, h) \o SubSeq(input, h + q + 1, len)
     ELSE input

RECURSIVE perfect_shuffle(_)
perfect_shuffle(input) ==
  LET len == Len(input)
      h == len \div 2
      q == len \div 4
      a == SubSeq(input, 1, q) \o SubSeq(input, h + 1, h + q)
      b == SubSeq(input, q + 1, h) \o SubSeq(input, h + q + 1, len)
  IN IF len >= 4 THEN perfect_shuffle(a) \o perfect_shuffle(b) ELSE input

(***************************************************************************)
(* The transform capability (ntt module, external to the module under      *)
(* study), and Horner evaluation (polynomial module).                      *)
(***************************************************************************)
RECURSIVE SumTo(_, _, _)
\* the sum of f(j) for lo <= j < hi
SumTo(f(_), lo, hi) == IF lo >= hi THEN zero ELSE Add(f(lo), SumTo(f, lo + 1, hi))

\* ntt(outp, inp, size): outp[i] = sum_j inp[j] * w_size^(i*j)
ntt(inp, size) ==
  LET w == root(log2(size))
  IN [i \in 1..size |->
        LET term(j) == Mul(At(inp, j), Pow(w, ((i - 1) * j) % size))
        IN SumTo(term, 0, size)]

\* ntt_inv_finish(outp, size, size_inv): outp[i] <- outp[(size - i) mod size] * size_inv
ntt_inv_finish(outp, size, size_inv) ==
  [i \in 1..size |-> Mul(At(outp, (size - (i - 1)) % size), size_inv)]

\* ntt_star(outp, inp, size): outp[i] = sum_j inp[j] * w_(2 size)^((2i+1)*j)
ntt_star(inp, size) ==
  LET w == root(log2(size) + 1)
  IN [i \in 1..size |->
        LET term(j) == Mul(At(inp, j), Pow(w, ((2 * (i - 1) + 1) * j) % (2 * size)))
        IN SumTo(term, 0, size)]

\* polynomial::poly_eval: Horner's method on coefficients
RECURSIVE horner(_, _, _)
horner(coeffs, pt, i) ==
  IF i >= Len(coeffs) THEN zero
  ELSE Add(At(coeffs, i), Mul(pt, horner(coeffs, pt, i + 1)))

poly_eval(coeffs, pt) == horner(coeffs, pt, 0)

\* The test oracle: inverse NTT, then Horner.
poly_eval_monomial(points, eval_at, size_inv) ==
  poly_eval(ntt_inv_finish(ntt(points, Len(points)), Len(points), size_inv), eval_at)

\* Fp::from(n).inv()
size_inverse(m) == Inv(m % P)

\* [poly, vec![zero; n - poly.len()]].concat()
extended_poly(p, m) == p \o Zeros(m - Len(p))

\* assert!(2 * n <= values.len()), the assertion of inv_pow2
extend_dimension_double_panics(values, m) ==
  \/ 2 * m > Len(values)
  \/ pow2_assert_fails(m)

\* Mutant: the final perfect_shuffle is left out.
extend_dimension_double_noshuffle(values, m) ==
  LET tmp == ntt_inv_finish(ntt(SubSeq(values, 1, m), m), m, inv_pow2(m))
      star == ntt_star(tmp, m)
  IN SubSeq(values, 1, m) \o star \o SubSeq(values, 2 * m + 1, Len(values))

extend_dimension_double(values, m) ==
  LET tmp == ntt_inv_finish(ntt(SubSeq(values, 1, m), m), m, inv_pow2(m))
      star == ntt_star(tmp, m)
  IN perfect_shuffle(SubSeq(values, 1, m) \o star)
     \o SubSeq(values, 2 * m + 1, Len(values))

(***************************************************************************)
(* State machine: a caller builds a root table, then calls one operation.  *)
(***************************************************************************)
Init ==
  /\ pc = "start"
  /\ n = 0
  /\ roots = <<>>
  /\ poly = <<>>
  /\ polys = <<>>
  /\ x = zero
  /\ buf = <<>>
  /\ out = <<>>
  /\ failed = FALSE

BuildRoots ==
  /\ pc = "start"
  /\ \E m \in TableSizes :
       /\ n' = m
       /\ roots' = nth_root_powers(m)
  /\ pc' = "roots"
  /\ UNCHANGED <<poly, polys, x, buf, out, failed>>

EvalSingle ==
  /\ pc = "roots"
  /\ \E p \in SeqsOf(Vals, 1, MaxLen), pt \in Field :
       /\ poly' = p
       /\ x' = pt
       /\ failed' = poly_eval_rhizomes_panics(p, roots)
       /\ out' = IF failed' THEN <<>> ELSE <<poly_eval_rhizomes(p, roots, pt)>>
  /\ pc' = "poly_eval_rhizomes"
  /\ UNCHANGED <<n, roots, polys, buf>>

EvalBatched ==
  /\ pc = "roots"
  /\ \E ps \in SeqsOf(SeqsOf(Vals, 1, MaxSmallLen), 0, MaxBatch), pt \in Field :
       /\ polys' = ps
       /\ x' = pt
       /\ failed' = poly_eval_rhizomes_batched_panics(ps, roots)
       /\ out' = IF failed' THEN <<>> ELSE poly_eval_rhizomes_batched(ps, roots, pt)
  /\ pc' = "poly_eval_rhizomes_batched"
  /\ UNCHANGED <<n, roots, poly, buf>>

EvalMulti ==
  /\ pc = "roots"
  /\ \E pts \in SeqsOf(Field, 0, MaxPoints), p \in SeqsOf(Vals, 1, MaxSmallLen) :
       /\ buf' = pts
       /\ poly' = p
       /\ failed' = poly_multieval_rhizomes_batched_panics(pts, p, roots)
       /\ out' = IF failed' THEN pts ELSE poly_multieval_rhizomes_batched(pts, p, roots)
  /\ pc' = "poly_multieval_rhizomes_batched"
  /\ UNCHANGED <<n, roots, polys, x>>

ExtendOne ==
  /\ pc = "roots"
  /\ \E values \in SeqsOf(Vals, 0, MaxLen) :
       /\ poly' = values
       /\ failed' = extend_dimension_one_panics(values, roots)
       /\ out' = IF failed' THEN <<>> ELSE <<extend_dimension_one(values, roots)>>
  /\ pc' = "extend_dimension_one"
  /\ UNCHANGED <<n, roots, polys, x, buf>>

ExtendDouble ==
  /\ pc = "start"
  /\ \E m \in DoubleSizes :
       \E values \in [1..m -> Vals], fill \in Vals, len \in {2 * m - 1, 2 * m, 2 * m + 1} :
       /\ n' = m
       /\ buf' = values \o [i \in 1..(len - m) |-> fill]
       /\ failed' = extend_dimension_double_panics(buf', m)
       /\ out' = IF failed' THEN buf' ELSE extend_dimension_double(buf', m)
  /\ pc' = "extend_dimension_double"
  /\ UNCHANGED <<roots, poly, polys, x>>

Shuffle ==
  /\ pc = "start"
  \* perfect_shuffle<T> is generic: the buffer holds len distinct elements
  /\ \E len \in 0..MaxShuffleLen, first \in Vals :
     LET input == [i \in 1..len |-> first + i - 1]
     IN
       /\ buf' = input
       /\ failed' = perfect_shuffle_panics(Len(input))
       /\ out' = IF failed' THEN input ELSE perfect_shuffle(input)
  /\ pc' = "perfect_shuffle"
  /\ UNCHANGED <<n, roots, poly, polys, x>>

Next ==
  \/ BuildRoots
  \/ EvalSingle
  \/ EvalBatched
  \/ EvalMulti
  \/ ExtendOne
  \/ ExtendDouble
  \/ Shuffle

Spec == Init /\ [][Next]_vars

(***************************************************************************)
(* Reference values used by the properties.                                *)
(***************************************************************************)
\* The value at pt of the polynomial of degree < Len(values) through
\* (rts[i], values[i]), by the Lagrange formula.
LagrangeAt(values, rts, pt) ==
  LET k == Len(values)
      basis(i) ==
        LET RECURSIVE num(_)
            num(j) == IF j >= k THEN one
                      ELSE Mul(IF j = i THEN one ELSE Sub(pt, At(rts, j)), num(j + 1))
            RECURSIVE den(_)
            den(j) == IF j >= k THEN one
                      ELSE Mul(IF j = i THEN one ELSE Sub(At(rts, i), At(rts, j)),
                               den(j + 1))
        IN IF At(values, i) = zero THEN zero
           ELSE Mul(At(values, i), Mul(num(0), Inv(den(0))))
  IN SumTo(basis, 0, k)

\* 1 + pt + ... + pt^(m-1)
GeometricSum(pt, m) == LET term(k) == Pow(pt, k) IN SumTo(term, 0, m)

EvalDone == pc = "poly_eval_rhizomes" /\ ~failed
BatchedDone == pc = "poly_eval_rhizomes_batched" /\ ~failed
MultiDone == pc = "poly_multieval_rhizomes_batched" /\ ~failed
ExtendOneDone == pc = "extend_dimension_one" /\ ~failed
DoubleDone == pc = "extend_dimension_double" /\ ~failed
ShuffleDone == pc = "perfect_shuffle" /\ ~failed

(***************************************************************************)
(* C1: poly_eval_rhizomes(poly, nth_root_powers(n), x), for a polynomial   *)
(* of length 1 <= N <= n and any point x (a root included), is the value   *)
(* at x of the polynomial of degree < n that is poly[i] at roots[i], i < N, *)
(* and 0 at the other roots: the inverse transform (1/n normalisation) of  *)
(* poly zero-padded to length n, evaluated by Horner's method.             *)
(***************************************************************************)
C1_EvalIsInverseTransformThenHorner ==
  EvalDone =>
    /\ out = <<poly_eval_monomial(extended_poly(poly, Len(roots)), x,
                                  size_inverse(Len(roots)))>>
    /\ out = <<LagrangeAt(extended_poly(poly, Len(roots)), roots, x)>>

C1_Witness ==
  /\ EvalDone
  /\ Len(roots) = 8
  /\ Len(poly) = 5
  /\ x = At(roots, 3)
  /\ At(poly, 3) = one
  /\ out = <<one>>

(***************************************************************************)
(* C2: after extend_dimension_double(values, n) on a buffer of length      *)
(* >= 2n, entry i < 2n is P(w_2n^i), P being the polynomial of degree < n  *)
(* whose values at the n-th roots were the first n entries; the single     *)
(* point evaluator therefore returns the same value on the n old values    *)
(* with the n-table as on the 2n new values with the 2n-table, at every x. *)
(***************************************************************************)
C2_DoubleResamplesSamePolynomial ==
  DoubleDone =>
    LET old == SubSeq(buf, 1, n)
        w2n == root(log2(n) + 1)
    IN /\ Len(out) = Len(buf)
       /\ \A i \in 0..(2 * n - 1) :
            At(out, i) = LagrangeAt(old, nth_root_powers_slow(n), Pow(w2n, i))
       /\ \A i \in (2 * n)..(Len(buf) - 1) : At(out, i) = At(buf, i)
       /\ \A pt \in Field :
            poly_eval_rhizomes(old, nth_root_powers(n), pt)
              = poly_eval_rhizomes(SubSeq(out, 1, 2 * n), nth_root_powers(2 * n), pt)

C2_Witness ==
  /\ DoubleDone
  /\ n = 8
  /\ Len(buf) = 17
  /\ At(buf, 1) = one
  /\ At(buf, 2) = zero
  /\ At(out, 2) = one
  /\ At(out, 4) = zero
  /\ out # extend_dimension_double_noshuffle(buf, n)

(***************************************************************************)
(* C3: poly_eval_rhizomes_batched on polynomials of lengths 1..n returns   *)
(* one result per polynomial, in order, each equal to poly_eval_rhizomes   *)
(* of that polynomial with the same table and point.                       *)
(***************************************************************************)
C3_BatchedEqualsSingle ==
  (BatchedDone /\ \A j \in 1..Len(polys) : Len(polys[j]) <= Len(roots)) =>
    /\ Len(out) = Len(polys)
    /\ \A j \in 1..Len(polys) : out[j] = poly_eval_rhizomes(polys[j], roots, x)

C3_Witness ==
  /\ BatchedDone
  /\ Len(roots) = 4
  /\ Len(polys) = 2
  /\ Len(polys[1]) = 1
  /\ Len(polys[2]) = 2
  /\ out[1] # zero
  /\ out[2] # zero
  /\ out[1] # out[2]

(***************************************************************************)
(* C4: poly_multieval_rhizomes_batched overwrites slot j with              *)
(* poly_eval_rhizomes(poly, roots, x_j), x_j being what the slot held      *)
(* before the call: a function of x_j, poly and roots alone.               *)
(***************************************************************************)
C4_MultiEqualsSingle ==
  (MultiDone /\ Len(poly) <= Len(roots)) =>
    /\ Len(out) = Len(buf)
    /\ \A j \in 1..Len(buf) : out[j] = poly_eval_rhizomes(poly, roots, buf[j])

C4_Witness ==
  /\ MultiDone
  /\ Len(roots) = 8
  /\ Len(poly) = 2
  /\ At(poly, 1) = one
  /\ Len(buf) = 2
  /\ buf[1] # buf[2]
  /\ out[1] # out[2]
  /\ out[1] # zero
  /\ out[2] # zero

(***************************************************************************)
(* C5: nth_root_powers(n) is the table roots[i] = w_n^i, the sequence got  *)
(* by multiplying by the primitive n-th root from one on.                  *)
(***************************************************************************)
C5_RootsEqualSlow ==
  (pc = "roots") =>
    /\ Len(roots) = n
    /\ roots = nth_root_powers_slow(n)
    /\ \A i \in 0..(n - 1) : At(roots, i) = Pow(root(log2(n)), i)

C5_Witness ==
  /\ pc = "roots"
  /\ n = 16
  /\ At(roots, 1) = Gen
  /\ At(roots, 6) = Pow(Gen, 6)

(***************************************************************************)
(* C6: extend_dimension_one(values, roots), k = Len(values) < n, is the    *)
(* value at roots[k] of the polynomial of degree < k through               *)
(* (roots[i], values[i]), i < k; for k = n-1 the closed form returns what  *)
(* the general formula returns on the same inputs.                         *)
(***************************************************************************)
C6_ExtendOneInterpolates ==
  ExtendOneDone =>
    /\ out = <<LagrangeAt(poly, roots, At(roots, Len(poly)))>>
    /\ out = <<extend_general(poly, roots)>>

C6_Witness ==
  /\ ExtendOneDone
  /\ Len(roots) = 8
  /\ Len(poly) = 7
  /\ out # <<zero>>
  /\ out = <<extend_special(poly, roots, 0)>>

(***************************************************************************)
(* C7 as stated: a length-1 polynomial evaluates to the same value at any  *)
(* two points, whatever the length of the root table.                      *)
(***************************************************************************)
C7_Original ==
  (EvalDone /\ Len(poly) = 1) =>
    \A x2 \in Field : poly_eval_rhizomes(poly, roots, x2) = out[1]

(***************************************************************************)
(* C7 amended: with a table of length 1 the result is the constant c at    *)
(* every point; with a table of length n > 1 the result is                 *)
(* c * (1 + x + ... + x^(n-1)) / n, the zero-padded interpolant's value.   *)
(***************************************************************************)
C7_LengthOneIsPaddedInterpolant ==
  (EvalDone /\ Len(poly) = 1) =>
    /\ out[1] = Mul(Mul(At(poly, 0), size_inverse(Len(roots))),
                    GeometricSum(x, Len(roots)))
    /\ Len(roots) = 1 =>
         \A x2 \in Field : poly_eval_rhizomes(poly, roots, x2) = At(poly, 0)

C7_Witness ==
  /\ EvalDone
  /\ Len(poly) = 1
  /\ Len(roots) = 1
  /\ x = 5
  /\ out = <<one>>

(***************************************************************************)
(* C8 as stated: for n > 1 the table has roots[0] = one, roots[1] = -one.  *)
(***************************************************************************)
C8_Original ==
  (pc = "roots" /\ n > 1) =>
    /\ At(roots, 0) = one
    /\ At(roots, 1) = Neg(one)

(***************************************************************************)
(* C8 amended: for n > 1 the table has roots[0] = one and                  *)
(* roots[n/2] = -one; roots[1] = -one exactly when n = 2.                  *)
(***************************************************************************)
C8_MinusOneAtHalf ==
  (pc = "roots" /\ n > 1) =>
    /\ At(roots, 0) = one
    /\ At(roots, n \div 2) = Neg(one)
    /\ (At(roots, 1) = Neg(one)) <=> (n = 2)

C8_Witness ==
  /\ pc = "roots"
  /\ n = 8
  /\ At(roots, 4) = Neg(one)
  /\ At(roots, 1) # Neg(one)

(***************************************************************************)
(* C9 as stated: an evaluator called with a polynomial longer than the     *)
(* root table fails: no result, no output slot written.                    *)
(***************************************************************************)
C9_TooLongPolynomialFails ==
  /\ (pc = "poly_eval_rhizomes" /\ Len(poly) > Len(roots)) =>
       (failed /\ out = <<>>)
  /\ (pc = "poly_multieval_rhizomes_batched" /\ Len(poly) > Len(roots)) =>
       (failed /\ out = buf)
  /\ (pc = "poly_eval_rhizomes_batched"
        /\ \E j \in 1..Len(polys) : Len(polys[j]) > Len(roots)) =>
       (failed /\ out = <<>>)

(***************************************************************************)
(* C10: perfect_shuffle on a buffer of power-of-two length 2m puts the     *)
(* first half's element i at index 2i and the second half's at 2i+1; a     *)
(* buffer shorter than 4 is left as it is.                                 *)
(***************************************************************************)
C10_ShuffleInterleaves ==
  /\ (pc = "perfect_shuffle" /\ Len(buf) >= 2 /\ ~pow2_assert_fails(Len(buf))) =>
       /\ ~failed
       /\ Len(out) = Len(buf)
       /\ \A i \in 0..((Len(buf) \div 2) - 1) :
            /\ At(out, 2 * i) = At(buf, i)
            /\ At(out, 2 * i + 1) = At(buf, (Len(buf) \div 2) + i)
       /\ {out[i] : i \in 1..Len(out)} = {buf[i] : i \in 1..Len(buf)}
  /\ (pc = "perfect_shuffle" /\ Len(buf) < 4) => (~failed /\ out = buf)

C10_Witness ==
  /\ ShuffleDone
  /\ Len(buf) = 16
  /\ buf = [i \in 1..16 |-> i]
  /\ out = <<1, 9, 2, 10, 3, 11, 4, 12, 5, 13, 6, 14, 7, 15, 8, 16>>

====
